---- MODULE Spec2Model ----
(***************************************************************************)
(* A model of cupid/run.py: the run() command that loads the control       *)
(* structure, selects notebooks and scripts by component and by available  *)
(* environment, creates one ploomber task per selected entry and builds    *)
(* the DAG with the Serial executor.                                       *)
(*                                                                         *)
(* Python dicts keep insertion order, so a dict whose order matters is a   *)
(* sequence of [key, val] records with distinct keys.                      *)
(***************************************************************************)
EXTENDS Naturals, Sequences, FiniteSets, TLC

(***************************************************************************)
(* Bounds of the inputs.                                                   *)
(***************************************************************************)
MaxCats == 2
MaxDeps == 1

(***************************************************************************)
(* Ordered dicts.                                                          *)
(***************************************************************************)
Entry(k, v) == [key |-> k, val |-> v]

DictKeys(d) == {d[i].key : i \in 1..Len(d)}

DictHas(d, k) == k \in DictKeys(d)

DictGet(d, k) == d[CHOOSE i \in 1..Len(d) : d[i].key = k].val

\* d[k] = v: an existing key keeps its place and takes the new value.
DictSet(d, k, v) ==
    IF DictHas(d, k)
    THEN [i \in 1..Len(d) |-> IF d[i].key = k THEN Entry(k, v) ELSE d[i]]
    ELSE Append(d, Entry(k, v))

\* d.pop(k)
DictPop(d, k) == SelectSeq(d, LAMBDA e : e.key # k)

\* for k, v in src.items(): d[k] = v
RECURSIVE DictUpdate(_, _)
DictUpdate(d, src) ==
    IF src = << >> THEN d
    ELSE DictUpdate(DictSet(d, Head(src).key, Head(src).val), Tail(src))

\* for cat in section.values(): for k, v in cat.items(): d[k] = v
RECURSIVE MergeAllCategories(_, _)
MergeAllCategories(d, section) ==
    IF section = << >> THEN d
    ELSE MergeAllCategories(DictUpdate(d, Head(section).val), Tail(section))

(***************************************************************************)
(* The component options of the command line, in the order in which        *)
(* run() puts them into component_options.                                 *)
(***************************************************************************)
Components == <<"atmosphere", "ocean", "land", "seaice", "landice">>

ComponentSet == {Components[i] : i \in 1..Len(Components)}

\* True not in [atmosphere, ocean, land, seaice, landice]
NoComponentFlag(opts) == \A c \in ComponentSet : ~opts[c]

\* if True not in [...]: all = True
EffectiveAll(a, opts) == a \/ NoComponentFlag(opts)

\* MergeComponents that gives up at the first flagged component the section
\* lacks: the components after it are not merged.
RECURSIVE MergeComponentsUntilMissing(_, _, _, _)
MergeComponentsUntilMissing(d, section, opts, i) ==
    IF i > Len(Components) THEN d
    ELSE LET c == Components[i]
         IN  IF opts[c] /\ ~DictHas(section, c) THEN d
             ELSE IF opts[c]
             THEN MergeComponentsUntilMissing(DictUpdate(d, DictGet(section, c)), section,
                                              opts, i + 1)
             ELSE MergeComponentsUntilMissing(d, section, opts, i + 1)

\* The else branch: the flagged components present in the section, merged in
\* the order of component_options.
RECURSIVE MergeComponents(_, _, _, _)
MergeComponents(d, section, opts, i) ==
    IF i > Len(Components) THEN d
    ELSE LET c == Components[i]
         IN  IF opts[c] /\ DictHas(section, c)
             THEN MergeComponents(DictUpdate(d, DictGet(section, c)), section, opts, i + 1)
             ELSE MergeComponents(d, section, opts, i + 1)

NoComponentWarning(kind, c) == [type |-> "no_component", kind |-> kind, subject |-> c, env |-> ""]

BadEnvWarning(kind, name, env) == [type |-> "bad_env", kind |-> kind, subject |-> name, env |-> env]

\* The warnings of the else branch: one per flagged component the section lacks.
RECURSIVE ComponentWarnings(_, _, _, _)
ComponentWarnings(kind, section, opts, i) ==
    IF i > Len(Components) THEN << >>
    ELSE LET c == Components[i]
             rest == ComponentWarnings(kind, section, opts, i + 1)
         IN  IF opts[c] /\ ~DictHas(section, c)
             THEN <<NoComponentWarning(kind, c)>> \o rest
             ELSE rest

\* The notebooks start from the infrastructure category.
InfrastructureNbs(section) == DictUpdate(<< >>, DictGet(section, "infrastructure"))

\* SelectNbs where the component flags come before --all: with a component
\* flagged, only the flagged components are merged.
SelectNbsFlagsBeforeAll(section, a, opts) ==
    IF NoComponentFlag(opts)
    THEN MergeAllCategories(InfrastructureNbs(section), section)
    ELSE MergeComponents(InfrastructureNbs(section), section, opts, 1)

\* all_nbs after the selection (before the environment check).
SelectNbs(section, a, opts) ==
    IF EffectiveAll(a, opts)
    THEN MergeAllCategories(InfrastructureNbs(section), section)
    ELSE MergeComponents(InfrastructureNbs(section), section, opts, 1)

\* all_scripts after the selection (before the environment check).
SelectScripts(section, a, opts) ==
    IF EffectiveAll(a, opts)
    THEN MergeAllCategories(<< >>, section)
    ELSE MergeComponents(<< >>, section, opts, 1)

SelectWarnings(kind, section, a, opts) ==
    IF EffectiveAll(a, opts) THEN << >> ELSE ComponentWarnings(kind, section, opts, 1)

(***************************************************************************)
(* The environment check: a loop over a copy of the universe that pops the *)
(* entries whose kernel is marked unavailable.  The lookup                 *)
(* control["env_check"][kernel] raises KeyError when control has no        *)
(* env_check or env_check has no entry for the kernel; the loop stops      *)
(* there, with what it has popped and warned so far.                       *)
(***************************************************************************)
EnvKnown(ctl, kernel) ==
    /\ "env_check" \in DOMAIN ctl
    /\ kernel \in DOMAIN ctl.env_check

EnvAvailable(ctl, kernel) == ctl.env_check[kernel]

\* CheckEnvs without the pop: the task is warned about and stays.
RECURSIVE CheckEnvsNoPop(_, _, _, _, _)
CheckEnvsNoPop(kind, ctl, items, universe, warns) ==
    IF items = << >> THEN [universe |-> universe, warnings |-> warns, error |-> "none"]
    ELSE LET name == Head(items).key
             kernel == Head(items).val.kernel_name
         IN  IF ~EnvKnown(ctl, kernel)
             THEN [universe |-> universe, warnings |-> warns, error |-> "KeyError"]
             ELSE IF ~EnvAvailable(ctl, kernel)
             THEN CheckEnvsNoPop(kind, ctl, Tail(items), universe,
                                 Append(warns, BadEnvWarning(kind, name, kernel)))
             ELSE CheckEnvsNoPop(kind, ctl, Tail(items), universe, warns)

\* CheckEnvs that pops by kernel: every task of the bad environment goes at
\* the first of them, with one warning.
RECURSIVE CheckEnvsPopByKernel(_, _, _, _, _)
CheckEnvsPopByKernel(kind, ctl, items, universe, warns) ==
    IF items = << >> THEN [universe |-> universe, warnings |-> warns, error |-> "none"]
    ELSE LET name == Head(items).key
             kernel == Head(items).val.kernel_name
         IN  IF ~EnvKnown(ctl, kernel)
             THEN [universe |-> universe, warnings |-> warns, error |-> "KeyError"]
             ELSE IF ~EnvAvailable(ctl, kernel)
             THEN CheckEnvsPopByKernel(kind, ctl,
                      SelectSeq(Tail(items), LAMBDA e : e.val.kernel_name # kernel),
                      SelectSeq(universe, LAMBDA e : e.val.kernel_name # kernel),
                      Append(warns, BadEnvWarning(kind, name, kernel)))
             ELSE CheckEnvsPopByKernel(kind, ctl, Tail(items), universe, warns)

\* CheckEnvs that never empties the universe: the last task left is warned
\* about and stays.
RECURSIVE CheckEnvsKeepLast(_, _, _, _, _)
CheckEnvsKeepLast(kind, ctl, items, universe, warns) ==
    IF items = << >> THEN [universe |-> universe, warnings |-> warns, error |-> "none"]
    ELSE LET name == Head(items).key
             kernel == Head(items).val.kernel_name
         IN  IF ~EnvKnown(ctl, kernel)
             THEN [universe |-> universe, warnings |-> warns, error |-> "KeyError"]
             ELSE IF ~EnvAvailable(ctl, kernel)
             THEN CheckEnvsKeepLast(kind, ctl, Tail(items),
                                    IF Len(universe) = 1 THEN universe
                                    ELSE DictPop(universe, name),
                                    Append(warns, BadEnvWarning(kind, name, kernel)))
             ELSE CheckEnvsKeepLast(kind, ctl, Tail(items), universe, warns)

RECURSIVE CheckEnvs(_, _, _, _, _)
CheckEnvs(kind, ctl, items, universe, warns) ==
    IF items = << >> THEN [universe |-> universe, warnings |-> warns, error |-> "none"]
    ELSE LET name == Head(items).key
             kernel == Head(items).val.kernel_name
         IN  IF ~EnvKnown(ctl, kernel)
             THEN [universe |-> universe, warnings |-> warns, error |-> "KeyError"]
             ELSE IF ~EnvAvailable(ctl, kernel)
             THEN CheckEnvs(kind, ctl, Tail(items), DictPop(universe, name),
                            Append(warns, BadEnvWarning(kind, name, kernel)))
             ELSE CheckEnvs(kind, ctl, Tail(items), universe, warns)

(***************************************************************************)
(* Paths.  A path string is the sequence of its "/"-separated components   *)
(* (an absolute path starts with the empty component, as split("/")        *)
(* gives); a component is the sequence of its "."-separated pieces; a      *)
(* piece is the sequence of the strings concatenated to make it.           *)
(***************************************************************************)
Piece(s) == <<s>>

Name(s) == <<Piece(s)>>

RootComponent == Name("")

Tilde == Name("~")

\* "." and "..", each split at its dots.
Dot == <<Piece(""), Piece("")>>

DotDot == <<Piece(""), Piece(""), Piece("")>>

HomeDir == <<RootComponent, Name("home"), Name("user")>>

WorkDir == <<RootComponent, Name("work")>>

\* The home directories that expanduser finds: that of the environment
\* (HOME) for "~", that of the password database for "~root".  Any other
\* "~name" names no user.
UserHomes ==
    [u \in {"~", "~root"} |-> IF u = "~" THEN HomeDir ELSE <<RootComponent, Name("root")>>]

\* os.path.expanduser: a first component "~" or "~user" is replaced by the
\* home directory; the path of an unknown user is returned as it is.
expanduser(p) ==
    IF p # << >> /\ \E u \in DOMAIN UserHomes : Head(p) = Name(u)
    THEN UserHomes[CHOOSE u \in DOMAIN UserHomes : Head(p) = Name(u)] \o Tail(p)
    ELSE p

\* The string starts with "/".
IsAbsolute(p) == Len(p) >= 2 /\ Head(p) = RootComponent

\* The components of the normalised path: empty components and "." are
\* dropped, ".." drops the component before it (none at the root).
RECURSIVE ResolveComponents(_, _)
ResolveComponents(rest, stack) ==
    IF rest = << >> THEN stack
    ELSE LET c == Head(rest)
         IN  IF c = RootComponent \/ c = Dot
             THEN ResolveComponents(Tail(rest), stack)
             ELSE IF c = DotDot
             THEN ResolveComponents(Tail(rest),
                                    IF stack = << >> THEN stack
                                    ELSE SubSeq(stack, 1, Len(stack) - 1))
             ELSE ResolveComponents(Tail(rest), Append(stack, c))

\* os.path.realpath, on a file system without symbolic links: a relative
\* path (the empty string too) is taken from the working directory, and the
\* path is normalised.
realpath(p) ==
    LET stack == ResolveComponents(IF IsAbsolute(p) THEN p ELSE WorkDir \o p, << >>)
    IN  IF stack = << >> THEN <<RootComponent, RootComponent>> ELSE <<RootComponent>> \o stack

\* run_dir + "/computed_notebooks/" + sname
OutputDir(rd, sname) == rd \o <<Name("computed_notebooks"), sname>>

\* run_dir + "/temp_data"
TempDataPath(rd) == rd \o <<Name("temp_data")>>

\* full_cat_path.split("/")[-1].split('.')[0] + "_subset"
CatSubsetName(full) == Head(full[Len(full)]) \o Piece("_subset")

\* temp_data_path + "/" + cat_subset_name + ".json"
CatSubsetPath(tmp, name) == tmp \o << <<name, Piece("json")>> >>

NoPath == << >>

(***************************************************************************)
(* Tasks.  create_ploomber_nb_task and create_ploomber_script_task put a   *)
(* node into the DAG they are handed, a node that carries the parameters   *)
(* of the call, and add the edges from the tasks named by the dependency   *)
(* argument.                                                               *)
(***************************************************************************)
NoDependency == {}

\* DependencyArg without the if branch: no task is given its dependency.
DependencyArgDefault(info) == NoDependency

\* if "dependency" in info: dependency = info["dependency"], else the default
DependencyArg(info) ==
    IF "dependency" \in DOMAIN info THEN info.dependency ELSE NoDependency

create_ploomber_nb_task(nb, info, cat, root, out, params, dependency) ==
    [name |-> nb, kind |-> "notebook", kernel_name |-> info.kernel_name,
     cat_path |-> cat, nb_path_root |-> root, output_dir |-> out,
     params |-> params, upstream |-> dependency]

create_ploomber_script_task(script, info, cat, root, params, dependency) ==
    [name |-> script, kind |-> "script", kernel_name |-> info.kernel_name,
     cat_path |-> cat, nb_path_root |-> root, output_dir |-> NoPath,
     params |-> params, upstream |-> dependency]

\* The task run() makes of an entry of all_nbs.
NbTask(e, cat, root, out, params) ==
    create_ploomber_nb_task(e.key, e.val, cat, root, out, params, DependencyArg(e.val))

\* ScriptTask without the if branch: the scripts are created without dependency.
ScriptTaskNoDependency(e, cat, root, params) ==
    create_ploomber_script_task(e.key, e.val, cat, root, params, NoDependency)

\* The task run() makes of an entry of all_scripts.
ScriptTask(e, cat, root, params) ==
    create_ploomber_script_task(e.key, e.val, cat, root, params, DependencyArg(e.val))

\* global_params['serial'] = serial
SetSerial(params, s) ==
    [k \in DOMAIN params \cup {"serial"} |-> IF k = "serial" THEN s ELSE params[k]]

(***************************************************************************)
(* The graph.                                                              *)
(***************************************************************************)
DagNames(g) == {g[i].name : i \in 1..Len(g)}

DagTask(g, n) == g[CHOOSE i \in 1..Len(g) : g[i].name = n]

\* The dependency names of the graph that name none of its tasks.
Unresolved(g) == {d \in UNION {g[i].upstream : i \in 1..Len(g)} : d \notin DagNames(g)}

\* The tasks from which n is reachable along resolved edges (n's ancestors).
RECURSIVE AncestorsWithin(_, _, _)
AncestorsWithin(g, frontier, seen) ==
    LET next == (UNION {DagTask(g, n).upstream : n \in frontier}) \cap DagNames(g)
        fresh == next \ seen
    IN  IF fresh = {} THEN seen ELSE AncestorsWithin(g, fresh, seen \cup fresh)

Ancestors(g, n) == AncestorsWithin(g, {n}, {})

Cyclic(g) == \E n \in DagNames(g) : n \in Ancestors(g, n)

\* How a create call ends, g being the graph it was handed with its own
\* node attached.  The call sees no task that is created after it: a name
\* it cannot find among the tasks of g is an error, and so is a cycle of
\* the edges it added.
AttachError(g) ==
    IF Unresolved(g) # {} THEN "UnresolvedDependencyError"
    ELSE IF Cyclic(g) THEN "CyclicDependencyError"
    ELSE "none"

(***************************************************************************)
(* The inputs: the control structure get_control_dict returns and the      *)
(* options of the command line.                                            *)
(***************************************************************************)
Info(kernel, deps) ==
    IF deps = {} THEN [kernel_name |-> kernel]
    ELSE [kernel_name |-> kernel, dependency |-> deps]

Opts(S) == [c \in ComponentSet |-> c \in S]

DataSources ==
    [run_dir |-> <<RootComponent, Name("scratch"), Name("run")>>,
     sname |-> Name("quick-run"),
     nb_path_root |-> <<Tilde, Name("nblibrary")>>]

CatalogFile == <<RootComponent, Name("data"), <<Piece("cesm"), Piece("v2"), Piece("json")>> >>

\* "~root/catalogs//glade.json": a catalog given from the home directory of
\* a user, with an empty component, and with one dot in its file name.
CatalogInHome ==
    <<Name("~root"), Name("catalogs"), RootComponent, <<Piece("glade"), Piece("json")>> >>

\* Paths that are not normalised: run_dir "/scratch/./run/" and
\* nb_path_root "lib/../nblibrary".
DataSourcesAskew ==
    [run_dir |-> <<RootComponent, Name("scratch"), Dot, Name("run"), RootComponent>>,
     sname |-> Name("quick-run"),
     nb_path_root |-> <<Name("lib"), DotDot, Name("nblibrary")>>]

SubsetArgs == [case |-> "b.e23"]

\* The data_sources sections of the inputs.
DataSourcesChoices ==
    {DataSources,
     [k \in {"sname", "nb_path_root"} |-> DataSources[k]],
     DataSources @@ [path_to_cat_json |-> CatalogFile],
     DataSources @@ [path_to_cat_json |-> CatalogFile, subset |-> SubsetArgs],
     DataSourcesAskew @@ [path_to_cat_json |-> CatalogInHome],
     DataSourcesAskew @@ [path_to_cat_json |-> CatalogInHome, subset |-> SubsetArgs],
     DataSources @@ [subset |-> SubsetArgs]}

CatPool == {"infrastructure", "atmosphere", "ocean", "rof"}

\* The contents of one category of a section whose tasks are named a and b.
CatDicts(a, b) ==
    {<<Entry(a, Info("k1", {}))>>, <<Entry(a, Info("k2", {}))>>, <<Entry(b, Info("k1", {}))>>}

\* The sections of at most MaxCats categories.
Sections(a, b) ==
    UNION {{s \in [1..n -> [key : CatPool, val : CatDicts(a, b)]] :
               \A i, j \in 1..n : s[i].key = s[j].key => i = j} : n \in 0..MaxCats}

EnvChoices ==
    {[k \in {"k1", "k2"} |-> TRUE],
     [k \in {"k1", "k2"} |-> k = "k1"],
     [k \in {"k1"} |-> TRUE]}

FlagChoices ==
    {[all |-> FALSE, opts |-> Opts({})],
     [all |-> FALSE, opts |-> Opts({"atmosphere"})],
     [all |-> FALSE, opts |-> Opts({"ocean", "land"})],
     [all |-> FALSE, opts |-> Opts(ComponentSet)],
     [all |-> TRUE, opts |-> Opts({})],
     [all |-> TRUE, opts |-> Opts({"atmosphere"})]}

Input(ctl, f, s, ts) ==
    [control |-> ctl, all |-> f.all, opts |-> f.opts, serial |-> s, time_series |-> ts]

BaseControl(env) == [data_sources |-> DataSources, env_check |-> env]

\* Inputs that vary the notebook section, the flags and the environments.
NotebookInputs ==
    {Input(BaseControl(env) @@ [compute_notebooks |-> sec], f, FALSE, FALSE) :
        sec \in Sections("nbA", "nbB"), env \in EnvChoices, f \in FlagChoices}

\* Inputs that vary the script section, the flags and the environments.
ScriptInputs ==
    {Input(BaseControl(env) @@ [compute_scripts |-> sec], f, FALSE, FALSE) :
        sec \in Sections("scA", "scB"), env \in EnvChoices, f \in FlagChoices}

\* Inputs that vary the dependencies among two notebooks and a script.
DepTargets == {"nbA", "nbB", "scA", "missing_task"}

DepChoices == {D \in SUBSET DepTargets : Cardinality(D) <= MaxDeps}

NotebookLayouts(a, b) ==
    {<<Entry("infrastructure", <<Entry("nbA", a), Entry("nbB", b)>>)>>,
     <<Entry("infrastructure", <<Entry("nbB", b), Entry("nbA", a)>>)>>,
     <<Entry("infrastructure", <<Entry("nbA", a)>>), Entry("ocean", <<Entry("nbB", b)>>)>>}

GraphInputs ==
    {Input(BaseControl([k \in {"k1", "k2"} |-> k = "k1"])
             @@ [compute_notebooks |-> nbs,
                 compute_scripts |-> <<Entry("atmosphere", <<Entry("scA", Info("k1", dS))>>)>>],
           f, TRUE, FALSE) :
        nbs \in UNION {NotebookLayouts(Info(kA, dA), Info("k1", dB)) :
                          kA \in {"k1", "k2"}, dA \in DepChoices, dB \in DepChoices},
        dS \in DepChoices,
        f \in {[all |-> FALSE, opts |-> Opts({})], [all |-> FALSE, opts |-> Opts({"atmosphere"})]}}

\* Inputs that vary the data sources, the global parameters and the options
\* --serial and --time-series.
GlobalParamsChoices == {[CESM_output_dir |-> "archive"], [k \in {} |-> ""]}

DriverCatalogs ==
    {[compute_notebooks |-> <<Entry("infrastructure", <<Entry("nbA", Info("k1", {}))>>)>>,
      compute_scripts |-> <<Entry("atmosphere", <<Entry("scA", Info("k1", {"nbA"}))>>)>>],
     [compute_scripts |-> <<Entry("atmosphere", <<Entry("scA", Info("k1", {}))>>)>>],
     [compute_notebooks |-> <<Entry("infrastructure", <<Entry("nbA", Info("k1", {}))>>),
                              Entry("atmosphere", <<Entry("nbB", Info("k2", {}))>>)>>],
     [compute_notebooks |-> <<Entry("infrastructure", <<Entry("nbA", Info("k2", {})),
                                                        Entry("nbB", Info("k2", {}))>>)>>,
      compute_scripts |-> <<Entry("atmosphere", <<Entry("scA", Info("k2", {})),
                                                  Entry("scB", Info("k2", {}))>>)>>]}

DriverControls ==
    {[data_sources |-> ds] @@ env @@ gp @@ cat :
        ds \in DataSourcesChoices,
        env \in {[env_check |-> [k \in {"k1", "k2"} |-> TRUE]],
                 [env_check |-> [k \in {"k1", "k2"} |-> FALSE]],
                 [k \in {} |-> ""]},
        gp \in {[global_params |-> g] : g \in GlobalParamsChoices} \cup {[k \in {} |-> ""]},
        cat \in DriverCatalogs}

DriverInputs ==
    {Input(ctl, [all |-> FALSE, opts |-> Opts({})], s, ts) :
        ctl \in DriverControls, s \in BOOLEAN, ts \in BOOLEAN}

\* Inputs with --time-series, under every choice of the other flags.
TimeSeriesInputs ==
    {Input(ctl, f, s, TRUE) : ctl \in DriverControls, f \in FlagChoices, s \in BOOLEAN}

Inputs ==
    NotebookInputs \cup ScriptInputs \cup GraphInputs \cup DriverInputs \cup TimeSeriesInputs

(***************************************************************************)
(* The state of a run.                                                     *)
(***************************************************************************)
VARIABLES
    pc,                 \* where run() is
    error,              \* the exception that ended run(), if one did
    config,             \* the content of the configuration file
    control,            \* the control structure
    serial,             \* --serial
    time_series,        \* --time-series
    all,                \* --all, and what run() assigns to it
    component_options,  \* the component flags
    book_setup,         \* cupid.util.setup_book has been called
    run_dir, output_dir, temp_data_path, nb_path_root,
    cat_path,           \* the catalog path handed to the tasks
    serialized,         \* the catalog subsets written, as [directory, name]
    global_params,      \* the global parameters handed to the tasks
    params_shared,      \* global_params is the object control['global_params']
    all_nbs, all_scripts,
    warnings,           \* the warnings issued, in order
    dag,                \* the tasks of the DAG, in the order of their creation
    idx,                \* the place of the task loops in all_nbs or all_scripts
    status,             \* the state of each task during dag.build()
    started,            \* the tasks the executor has started, in order
    outcomes            \* what running each task reports: it succeeds or it fails

vars == <<pc, error, config, control, serial, time_series, all, component_options, book_setup,
          run_dir, output_dir, temp_data_path, nb_path_root, cat_path, serialized,
          global_params, params_shared, all_nbs, all_scripts, warnings, dag, idx,
          status, started, outcomes>>

inputs == <<config, serial, time_series, component_options>>

paths == <<run_dir, output_dir, temp_data_path, nb_path_root>>

NoControl == [k \in {} |-> ""]

NoError == [type |-> "none", at |-> "none"]

\* The state in which run() is entered, on an input of the set S.
InitFrom(S) ==
    \E in \in S :
        /\ config = in.control
        /\ control = NoControl
        /\ serial = in.serial
        /\ time_series = in.time_series
        /\ all = in.all
        /\ component_options = in.opts
        /\ pc = "start"
        /\ error = NoError
        /\ book_setup = FALSE
        /\ run_dir = NoPath
        /\ output_dir = NoPath
        /\ temp_data_path = NoPath
        /\ nb_path_root = NoPath
        /\ cat_path = NoPath
        /\ serialized = << >>
        /\ global_params = [k \in {} |-> ""]
        /\ params_shared = FALSE
        /\ all_nbs = << >>
        /\ all_scripts = << >>
        /\ warnings = << >>
        /\ dag = << >>
        /\ idx = 1
        /\ status = [n \in {} |-> ""]
        /\ started = << >>
        /\ outcomes = [n \in {} |-> ""]

Init == InitFrom(Inputs)

Raise(type, at) ==
    /\ pc' = "raised"
    /\ error' = [type |-> type, at |-> at]

(***************************************************************************)
(* run(), from its first line to the creation of the DAG.                  *)
(***************************************************************************)
\* if time_series: raise NotImplementedError
TimeSeriesAbort ==
    /\ pc = "start"
    /\ time_series
    /\ Raise("NotImplementedError", "time_series")
    /\ UNCHANGED <<inputs, control, all, book_setup, paths, cat_path, serialized,
                   global_params, params_shared, all_nbs, all_scripts, warnings, dag,
                   idx, status, started, outcomes>>

\* GetControl without the test of time_series before it: the configuration
\* is loaded and the book set up under --time-series too.
GetControlUnderTimeSeries ==
    /\ pc = "start"
    /\ control' = config
    /\ book_setup' = TRUE
    /\ pc' = "paths"
    /\ UNCHANGED <<inputs, error, all, paths, cat_path, serialized, global_params,
                   params_shared, all_nbs, all_scripts, warnings, dag, idx, status,
                   started, outcomes>>

\* control = get_control_dict(config_path); setup_book(config_path)
GetControl ==
    /\ pc = "start"
    /\ ~time_series
    /\ control' = config
    /\ book_setup' = TRUE
    /\ pc' = "paths"
    /\ UNCHANGED <<inputs, error, all, paths, cat_path, serialized, global_params,
                   params_shared, all_nbs, all_scripts, warnings, dag, idx, status,
                   started, outcomes>>

HasPaths(ctl) ==
    /\ "data_sources" \in DOMAIN ctl
    /\ {"run_dir", "sname", "nb_path_root"} \subseteq DOMAIN ctl.data_sources

GrabPaths ==
    /\ pc = "paths"
    /\ IF HasPaths(control)
       THEN LET rd == realpath(expanduser(control.data_sources.run_dir))
            IN  /\ run_dir' = rd
                /\ output_dir' = OutputDir(rd, control.data_sources.sname)
                /\ temp_data_path' = TempDataPath(rd)
                /\ nb_path_root' = realpath(expanduser(control.data_sources.nb_path_root))
                /\ pc' = "catalog"
                /\ UNCHANGED error
       ELSE /\ Raise("KeyError", "data_sources")
            /\ UNCHANGED paths
    /\ UNCHANGED <<inputs, control, all, book_setup, cat_path, serialized, global_params,
                   params_shared, all_nbs, all_scripts, warnings, dag, idx, status,
                   started, outcomes>>

ManageCatalog ==
    /\ pc = "catalog"
    /\ LET ds == control.data_sources
       IN  IF "path_to_cat_json" \in DOMAIN ds
           THEN LET full_cat_path == realpath(expanduser(ds.path_to_cat_json))
                    cat_subset_name == CatSubsetName(full_cat_path)
                IN  IF "subset" \in DOMAIN ds
                    THEN /\ serialized' = Append(serialized,
                                [directory |-> temp_data_path, name |-> cat_subset_name,
                                 search |-> ds.subset])
                         /\ cat_path' = CatSubsetPath(temp_data_path, cat_subset_name)
                    ELSE /\ cat_path' = full_cat_path
                         /\ UNCHANGED serialized
           ELSE UNCHANGED <<cat_path, serialized>>
    /\ pc' = "params"
    /\ UNCHANGED <<inputs, error, control, all, book_setup, paths, global_params,
                   params_shared, all_nbs, all_scripts, warnings, dag, idx, status,
                   started, outcomes>>

\* global_params = dict(), or the dict of the control structure itself
ManageGlobalParams ==
    /\ pc = "params"
    /\ IF "global_params" \in DOMAIN control
       THEN /\ global_params' = control.global_params
            /\ params_shared' = TRUE
       ELSE /\ global_params' = [k \in {} |-> ""]
            /\ params_shared' = FALSE
    /\ pc' = "notebooks"
    /\ UNCHANGED <<inputs, error, control, all, book_setup, paths, cat_path, serialized,
                   all_nbs, all_scripts, warnings, dag, idx, status, started, outcomes>>

(***************************************************************************)
(* Organizing notebooks to run.                                            *)
(***************************************************************************)
OrganizeNotebooks ==
    /\ pc = "notebooks"
    /\ IF "compute_notebooks" \notin DOMAIN control
       THEN /\ pc' = "scripts"
            /\ UNCHANGED <<error, all, all_nbs, warnings>>
       ELSE IF ~DictHas(control.compute_notebooks, "infrastructure")
       THEN /\ Raise("KeyError", "infrastructure")
            /\ UNCHANGED <<all, all_nbs, warnings>>
       ELSE /\ all' = EffectiveAll(all, component_options)
            /\ all_nbs' = SelectNbs(control.compute_notebooks, all, component_options)
            /\ warnings' = warnings \o SelectWarnings("notebook", control.compute_notebooks,
                                                      all, component_options)
            /\ pc' = "nb_env"
            /\ UNCHANGED error
    /\ UNCHANGED <<inputs, control, book_setup, paths, cat_path, serialized, global_params,
                   params_shared, all_scripts, dag, idx, status, started, outcomes>>

CheckNbEnvs ==
    /\ pc = "nb_env"
    /\ LET r == CheckEnvs("notebook", control, all_nbs, all_nbs, << >>)
       IN  /\ all_nbs' = r.universe
           /\ warnings' = warnings \o r.warnings
           /\ IF r.error = "none"
              THEN pc' = "nb_tasks" /\ UNCHANGED error
              ELSE Raise(r.error, "nb_env")
    /\ UNCHANGED <<inputs, control, all, book_setup, paths, cat_path, serialized,
                   global_params, params_shared, all_scripts, dag, idx, status, started, outcomes>>

\* One turn of the loop over all_nbs.items().
SetupNbTask ==
    /\ pc = "nb_tasks"
    /\ idx <= Len(all_nbs)
    /\ global_params' = SetSerial(global_params, serial)
    /\ control' = IF params_shared
                  THEN [control EXCEPT !.global_params = SetSerial(global_params, serial)]
                  ELSE control
    /\ LET g == Append(dag, NbTask(all_nbs[idx], cat_path, nb_path_root, output_dir,
                                    SetSerial(global_params, serial)))
       IN  /\ dag' = g
           /\ IF AttachError(g) = "none"
              THEN idx' = idx + 1 /\ UNCHANGED <<pc, error>>
              ELSE Raise(AttachError(g), "nb_tasks") /\ UNCHANGED idx
    /\ UNCHANGED <<inputs, all, book_setup, paths, cat_path, serialized, params_shared,
                   all_nbs, all_scripts, warnings, status, started, outcomes>>

NbTasksDone ==
    /\ pc = "nb_tasks"
    /\ idx > Len(all_nbs)
    /\ pc' = "scripts"
    /\ idx' = 1
    /\ UNCHANGED <<inputs, error, control, all, book_setup, paths, cat_path, serialized,
                   global_params, params_shared, all_nbs, all_scripts, warnings, dag,
                   status, started, outcomes>>

(***************************************************************************)
(* Organizing scripts.                                                     *)
(***************************************************************************)
OrganizeScripts ==
    /\ pc = "scripts"
    /\ IF "compute_scripts" \notin DOMAIN control
       THEN /\ pc' = "build"
            /\ UNCHANGED <<all, all_scripts, warnings>>
       ELSE /\ all' = EffectiveAll(all, component_options)
            /\ all_scripts' = SelectScripts(control.compute_scripts, all, component_options)
            /\ warnings' = warnings \o SelectWarnings("script", control.compute_scripts,
                                                      all, component_options)
            /\ pc' = "script_env"
    /\ UNCHANGED <<inputs, error, control, book_setup, paths, cat_path, serialized,
                   global_params, params_shared, all_nbs, dag, idx, status, started, outcomes>>

CheckScriptEnvs ==
    /\ pc = "script_env"
    /\ LET r == CheckEnvs("script", control, all_scripts, all_scripts, << >>)
       IN  /\ all_scripts' = r.universe
           /\ warnings' = warnings \o r.warnings
           /\ IF r.error = "none"
              THEN pc' = "script_tasks" /\ UNCHANGED error
              ELSE Raise(r.error, "script_env")
    /\ UNCHANGED <<inputs, control, all, book_setup, paths, cat_path, serialized,
                   global_params, params_shared, all_nbs, dag, idx, status, started, outcomes>>

\* SetupScriptTask with the dependencies of a script kept only under
\* --serial: without the flag the graph loses the edges into its scripts.
SetupScriptTaskEdgesOnlySerial ==
    /\ pc = "script_tasks"
    /\ idx <= Len(all_scripts)
    /\ LET g == Append(dag, IF serial
                            THEN ScriptTask(all_scripts[idx], cat_path, nb_path_root,
                                            global_params)
                            ELSE ScriptTaskNoDependency(all_scripts[idx], cat_path,
                                                        nb_path_root, global_params))
       IN  /\ dag' = g
           /\ IF AttachError(g) = "none"
              THEN idx' = idx + 1 /\ UNCHANGED <<pc, error>>
              ELSE Raise(AttachError(g), "script_tasks") /\ UNCHANGED idx
    /\ UNCHANGED <<inputs, control, all, book_setup, paths, cat_path, serialized,
                   global_params, params_shared, all_nbs, all_scripts, warnings, status,
                   started, outcomes>>

\* One turn of the loop over all_scripts.items().
SetupScriptTask ==
    /\ pc = "script_tasks"
    /\ idx <= Len(all_scripts)
    /\ LET g == Append(dag, ScriptTask(all_scripts[idx], cat_path, nb_path_root,
                                        global_params))
       IN  /\ dag' = g
           /\ IF AttachError(g) = "none"
              THEN idx' = idx + 1 /\ UNCHANGED <<pc, error>>
              ELSE Raise(AttachError(g), "script_tasks") /\ UNCHANGED idx
    /\ UNCHANGED <<inputs, control, all, book_setup, paths, cat_path, serialized,
                   global_params, params_shared, all_nbs, all_scripts, warnings, status,
                   started, outcomes>>

ScriptTasksDone ==
    /\ pc = "script_tasks"
    /\ idx > Len(all_scripts)
    /\ pc' = "build"
    /\ idx' = 1
    /\ UNCHANGED <<inputs, error, control, all, book_setup, paths, cat_path, serialized,
                   global_params, params_shared, all_nbs, all_scripts, warnings, dag,
                   status, started, outcomes>>

(***************************************************************************)
(* dag.build(): the tasks of the graph are run by the Serial executor, one *)
(* at a time, each after the tasks it depends on.                          *)
(***************************************************************************)
Terminal == {"succeeded", "failed", "skipped"}

\* An executor that starts a task while another runs.
ExecutorAlwaysFree(st) == TRUE

\* executor=ploomber.executors.Serial(): no task starts while one runs.
ExecutorFree(st) == \A m \in DOMAIN st : st[m] # "running"

Ready(g, st, n) ==
    /\ st[n] = "waiting"
    /\ \A u \in DagTask(g, n).upstream : st[u] = "succeeded"

Blocked(g, st, n) ==
    /\ st[n] = "waiting"
    /\ \E u \in DagTask(g, n).upstream : st[u] \in {"failed", "skipped"}

DagBuild ==
    /\ pc = "build"
    /\ status' = [n \in DagNames(dag) |-> "waiting"]
    /\ outcomes' \in [DagNames(dag) -> {"succeeded", "failed"}]
    /\ pc' = "exec"
    /\ UNCHANGED <<inputs, error, control, all, book_setup, paths, cat_path, serialized,
                   global_params, params_shared, all_nbs, all_scripts, warnings, dag,
                   idx, started>>

StartTask ==
    /\ pc = "exec"
    /\ ExecutorFree(status)
    /\ \E n \in DOMAIN status :
        /\ Ready(dag, status, n)
        /\ status' = [status EXCEPT ![n] = "running"]
        /\ started' = Append(started, n)
    /\ UNCHANGED <<inputs, pc, error, control, all, book_setup, paths, cat_path, serialized,
                   global_params, params_shared, all_nbs, all_scripts, warnings, dag, idx,
                   outcomes>>

\* The task that runs ends as its notebook or script ends.
FinishTask ==
    /\ pc = "exec"
    /\ \E n \in DOMAIN status :
        /\ status[n] = "running"
        /\ status' = [status EXCEPT ![n] = outcomes[n]]
    /\ UNCHANGED <<inputs, pc, error, control, all, book_setup, paths, cat_path, serialized,
                   global_params, params_shared, all_nbs, all_scripts, warnings, dag, idx,
                   started, outcomes>>

\* A task below a failed or skipped task is not run.
SkipTask ==
    /\ pc = "exec"
    /\ \E n \in DOMAIN status :
        /\ Blocked(dag, status, n)
        /\ status' = [status EXCEPT ![n] = "skipped"]
    /\ UNCHANGED <<inputs, pc, error, control, all, book_setup, paths, cat_path, serialized,
                   global_params, params_shared, all_nbs, all_scripts, warnings, dag, idx,
                   started, outcomes>>

\* dag.build() returns, or raises when a task has failed; run() returns None.
BuildDone ==
    /\ pc = "exec"
    /\ \A n \in DOMAIN status : status[n] \in Terminal
    /\ IF \E n \in DOMAIN status : status[n] = "failed"
       THEN Raise("DAGBuildError", "build")
       ELSE pc' = "returned" /\ UNCHANGED error
    /\ UNCHANGED <<inputs, control, all, book_setup, paths, cat_path, serialized,
                   global_params, params_shared, all_nbs, all_scripts, warnings, dag, idx,
                   status, started, outcomes>>

Next ==
    \/ TimeSeriesAbort
    \/ GetControl
    \/ GrabPaths
    \/ ManageCatalog
    \/ ManageGlobalParams
    \/ OrganizeNotebooks
    \/ CheckNbEnvs
    \/ SetupNbTask
    \/ NbTasksDone
    \/ OrganizeScripts
    \/ CheckScriptEnvs
    \/ SetupScriptTask
    \/ ScriptTasksDone
    \/ DagBuild
    \/ StartTask
    \/ FinishTask
    \/ SkipTask
    \/ BuildDone

Spec == Init /\ [][Next]_vars

\* run() is one sequential program: while a step is possible, one is taken.
\* The runs are those on the inputs whose tasks the environment check can
\* all remove (a graph input always has a task on an available kernel).
FairSpec == InitFrom(Inputs \ GraphInputs) /\ [][Next]_vars /\ WF_vars(Next)

(***************************************************************************)
(* Where a run is, for the properties.                                     *)
(***************************************************************************)
\* The environment check of the notebooks has run to its end.
NbFilterDone ==
    \/ pc \in {"nb_tasks", "scripts", "script_env", "script_tasks", "build", "exec",
               "returned"}
    \/ pc = "raised" /\ error.at \in {"nb_tasks", "script_env", "script_tasks", "build"}

\* The environment check of the scripts has run to its end.
ScriptFilterDone ==
    \/ pc \in {"script_tasks", "build", "exec", "returned"}
    \/ pc = "raised" /\ error.at \in {"script_tasks", "build"}

HasNotebooks == "compute_notebooks" \in DOMAIN control

HasScripts == "compute_scripts" \in DOMAIN control

\* A dict as the set of its entries: two dicts are equal in Python when
\* these sets are.
Items(d) == {d[i] : i \in 1..Len(d)}

MarkedAvailable(kernel) ==
    /\ "env_check" \in DOMAIN control
    /\ kernel \in DOMAIN control.env_check
    /\ control.env_check[kernel] = TRUE

MarkedUnavailable(kernel) ==
    /\ "env_check" \in DOMAIN control
    /\ kernel \in DOMAIN control.env_check
    /\ control.env_check[kernel] = FALSE

AllFive == [c \in ComponentSet |-> TRUE]

WarningsOf(type, kind) == SelectSeq(warnings, LAMBDA w : w.type = type /\ w.kind = kind)

(***************************************************************************)
(* C1.  With no component flag set, the notebook universe and the script   *)
(* universe that run() selects are those it selects with all five          *)
(* component flags set and --all unset.  Stated for the sections in which  *)
(* the two selections name the same categories and no merge order can      *)
(* matter: the categories are infrastructure and the five components, and  *)
(* no task name is in two of them.                                         *)
(***************************************************************************)
PlainSection(section) ==
    /\ DictKeys(section) \subseteq {"infrastructure"} \cup ComponentSet
    /\ \A i, j \in 1..Len(section) :
          i # j => DictKeys(section[i].val) \cap DictKeys(section[j].val) = {}

C1_NoFlagEqualsAllFiveFlags ==
    NoComponentFlag(component_options) =>
        /\ pc = "nb_env" /\ PlainSection(control.compute_notebooks) =>
              Items(all_nbs) = Items(SelectNbs(control.compute_notebooks, FALSE, AllFive))
        /\ pc = "script_env" /\ PlainSection(control.compute_scripts) =>
              Items(all_scripts) = Items(SelectScripts(control.compute_scripts, FALSE, AllFive))

(***************************************************************************)
(* C2.  Once the environment check has run, every task left in all_nbs and *)
(* in all_scripts has a kernel that env_check marks available, and so has  *)
(* every task of the DAG, at every moment.                                 *)
(***************************************************************************)
C2_OnlyAvailableRuntimes ==
    /\ NbFilterDone => \A e \in Items(all_nbs) : MarkedAvailable(e.val.kernel_name)
    /\ ScriptFilterDone => \A e \in Items(all_scripts) : MarkedAvailable(e.val.kernel_name)
    /\ \A i \in 1..Len(dag) : MarkedAvailable(dag[i].kernel_name)

\* A task was dropped for its environment and another one is in the DAG.
C2_Witness ==
    /\ pc = "build"
    /\ \E w \in Items(warnings) : w.type = "bad_env"
    /\ dag # << >>

(***************************************************************************)
(* C3.  The environment check never raises: a task whose kernel is marked  *)
(* unavailable or has no entry in env_check (or env_check is absent) is    *)
(* warned about and left out, and the run goes on.                         *)
(***************************************************************************)
C3_UnknownRuntimeIsWarnedNotRaised ==
    /\ error.at \notin {"nb_env", "script_env"}
    /\ NbFilterDone /\ HasNotebooks =>
          \A e \in Items(SelectNbs(control.compute_notebooks, all, component_options)) :
              ~MarkedAvailable(e.val.kernel_name) =>
                  /\ e.key \notin DictKeys(all_nbs)
                  /\ \E w \in Items(WarningsOf("bad_env", "notebook")) : w.subject = e.key
    /\ ScriptFilterDone /\ HasScripts =>
          \A e \in Items(SelectScripts(control.compute_scripts, all, component_options)) :
              ~MarkedAvailable(e.val.kernel_name) =>
                  /\ e.key \notin DictKeys(all_scripts)
                  /\ \E w \in Items(WarningsOf("bad_env", "script")) : w.subject = e.key

(***************************************************************************)
(* C4.  The environment check removes the tasks whose kernel is marked     *)
(* unavailable and no other, warns once for each task it removes, and      *)
(* leaves the other tasks, their order and their metadata as they were.    *)
(* When the check is cut short by an unknown kernel, what it has removed   *)
(* by then are tasks marked unavailable, one warning each.                 *)
(***************************************************************************)
Kept(before) == SelectSeq(before, LAMBDA e : ~MarkedUnavailable(e.val.kernel_name))

Removed(before) == SelectSeq(before, LAMBDA e : MarkedUnavailable(e.val.kernel_name))

RemovalWarnings(kind, before, after) ==
    LET gone == SelectSeq(before, LAMBDA e : e \notin Items(after))
    IN  [i \in 1..Len(gone) |-> BadEnvWarning(kind, gone[i].key, gone[i].val.kernel_name)]

C4_FilterRemovesExactlyUnavailable ==
    /\ NbFilterDone /\ HasNotebooks =>
          LET before == SelectNbs(control.compute_notebooks, all, component_options)
          IN  /\ all_nbs = Kept(before)
              /\ WarningsOf("bad_env", "notebook") = RemovalWarnings("notebook", before, all_nbs)
              /\ Len(WarningsOf("bad_env", "notebook")) = Len(Removed(before))
    /\ ScriptFilterDone /\ HasScripts =>
          LET before == SelectScripts(control.compute_scripts, all, component_options)
          IN  /\ all_scripts = Kept(before)
              /\ WarningsOf("bad_env", "script") = RemovalWarnings("script", before, all_scripts)
              /\ Len(WarningsOf("bad_env", "script")) = Len(Removed(before))
    /\ pc = "raised" /\ error.at = "nb_env" =>
          LET before == SelectNbs(control.compute_notebooks, all, component_options)
          IN  /\ Items(all_nbs) \subseteq Items(before)
              /\ \A e \in Items(before) \ Items(all_nbs) : MarkedUnavailable(e.val.kernel_name)
              /\ WarningsOf("bad_env", "notebook") = RemovalWarnings("notebook", before, all_nbs)
    /\ pc = "raised" /\ error.at = "script_env" =>
          LET before == SelectScripts(control.compute_scripts, all, component_options)
          IN  /\ Items(all_scripts) \subseteq Items(before)
              /\ \A e \in Items(before) \ Items(all_scripts) : MarkedUnavailable(e.val.kernel_name)
              /\ WarningsOf("bad_env", "script") = RemovalWarnings("script", before, all_scripts)

\* The check has removed one of two notebooks and kept the other.
C4_Witness ==
    /\ pc = "nb_tasks"
    /\ Len(all_nbs) = 1
    /\ Len(WarningsOf("bad_env", "notebook")) = 1
    /\ Len(SelectNbs(control.compute_notebooks, all, component_options)) = 2

(***************************************************************************)
(* C5.  Whatever the component selection, every task of the category       *)
(* infrastructure whose kernel is available is in the universe, of the     *)
(* notebooks and of the scripts alike.  (A name that another category of   *)
(* the section defines too is left aside: the merge order decides it.)     *)
(***************************************************************************)
DefinedElsewhere(section, name) ==
    \E i \in 1..Len(section) :
        section[i].key # "infrastructure" /\ DictHas(section[i].val, name)

InfrastructureKept(section, universe) ==
    DictHas(section, "infrastructure") =>
        \A e \in Items(DictGet(section, "infrastructure")) :
            MarkedAvailable(e.val.kernel_name) /\ ~DefinedElsewhere(section, e.key)
                => e \in Items(universe)

C5_InfrastructureAlwaysIncluded ==
    /\ NbFilterDone /\ HasNotebooks => InfrastructureKept(control.compute_notebooks, all_nbs)
    /\ ScriptFilterDone /\ HasScripts => InfrastructureKept(control.compute_scripts, all_scripts)

(***************************************************************************)
(* The dependencies as the selected entries declare them.                  *)
(***************************************************************************)
Selected == Items(all_nbs) \cup Items(all_scripts)

SelectedNames == DictKeys(all_nbs) \cup DictKeys(all_scripts)

Declares(e) == IF "dependency" \in DOMAIN e.val THEN e.val.dependency ELSE {}

DeclaredBy(n) == UNION {Declares(e) : e \in {x \in Selected : x.key = n}}

\* A selected task names a dependency that is no selected task.
DeclaredUnresolved == \E e \in Selected : Declares(e) \ SelectedNames # {}

\* The selected tasks on which n depends, directly or not.
RECURSIVE DeclaredAbove(_, _)
DeclaredAbove(frontier, seen) ==
    LET next == (UNION {DeclaredBy(n) : n \in frontier}) \cap SelectedNames
        fresh == next \ seen
    IN  IF fresh = {} THEN seen ELSE DeclaredAbove(fresh, seen \cup fresh)

DependsOn(n) == DeclaredAbove({n}, {})

DeclaredCycle == \E n \in SelectedNames : n \in DependsOn(n)

\* A create call has raised: run() has ended in one of its two task loops.
CreateFailed == pc = "raised" /\ error.at \in {"nb_tasks", "script_tasks"}

\* The two task loops have run to their end: run() is at dag.build(), or
\* past it.
BuildReached ==
    \/ pc \in {"build", "exec", "returned"}
    \/ pc = "raised" /\ error.at = "build"

Executing == pc \in {"exec", "returned"} \/ (pc = "raised" /\ error.at = "build")

\* The environment check of the scripts, as it ends or would end in a run
\* that a notebook has stopped before the scripts were organized.
ScriptCheckToCome ==
    LET sel == SelectScripts(control.compute_scripts, all, component_options)
    IN  CheckEnvs("script", control, sel, sel, << >>)

ScriptsToCome ==
    IF ~HasScripts THEN << >>
    ELSE IF ScriptFilterDone THEN all_scripts
    ELSE ScriptCheckToCome.universe

\* The names of the tasks that the configuration supplies to the graph.
SuppliedNames == DictKeys(all_nbs) \cup DictKeys(ScriptsToCome)

\* Every dependency name that a supplied task declares is a supplied task.
EveryNameResolves ==
    /\ HasScripts /\ ~ScriptFilterDone => ScriptCheckToCome.error = "none"
    /\ \A e \in Items(all_nbs) \cup Items(ScriptsToCome) : Declares(e) \subseteq SuppliedNames

\* The task whose create call has raised.
FailingTask == dag[Len(dag)]

(***************************************************************************)
(* C6.  When a selected task declares a dependency that is no task         *)
(* supplied to the graph, run() never reaches dag.build(): it ends in the  *)
(* create call of a task, with an error of the assembly of the graph,      *)
(* which is UnresolvedDependencyError when the task of the call names a    *)
(* task that is not supplied, and no task is ever started.                 *)
(***************************************************************************)
C6_UnresolvedDependencyFails ==
    /\ BuildReached => ~DeclaredUnresolved
    /\ CreateFailed =>
          /\ error.type \in {"UnresolvedDependencyError", "CyclicDependencyError"}
          /\ FailingTask.upstream \ SuppliedNames # {}
                => error.type = "UnresolvedDependencyError"
          /\ started = << >>
          /\ status = [n \in {} |-> ""]

\* A create call has raised on a dependency that names a task the
\* environment check dropped, and no task was started.
C6_Witness ==
    /\ CreateFailed
    /\ error.type = "UnresolvedDependencyError"
    /\ started = << >>
    /\ \E w \in Items(warnings) :
          /\ w.type = "bad_env"
          /\ w.subject \in FailingTask.upstream
          /\ w.subject \notin SuppliedNames

(***************************************************************************)
(* C7.  When every declared dependency names a task supplied to the graph, *)
(* whatever the order of the tasks and whether the edges join notebooks,   *)
(* scripts or both, no create call raises, and the graph handed to         *)
(* dag.build() has one node per selected notebook and script.              *)
(***************************************************************************)
C7_ResolvedGraphAssembles ==
    /\ CreateFailed => ~EveryNameResolves
    /\ BuildReached => Len(dag) = Len(all_nbs) + Len(all_scripts)

(***************************************************************************)
(* C8.  When the declared dependencies among the selected tasks form a     *)
(* cycle, run() never reaches dag.build(): it ends in a create call with   *)
(* CyclicDependencyError, and no task is ever started.                     *)
(***************************************************************************)
C8_CycleFails ==
    /\ BuildReached => ~DeclaredCycle
    /\ CreateFailed /\ DeclaredCycle =>
          /\ error.type = "CyclicDependencyError"
          /\ started = << >>
          /\ status = [n \in {} |-> ""]

(***************************************************************************)
(* C9.  A task is started only after every task it declares as dependency  *)
(* was started before it and has succeeded, no task is started twice, and  *)
(* at most one task is running at a time: the tasks are started in a       *)
(* topological order of the declared edges.                                *)
(***************************************************************************)
C9_SerialTopologicalOrder ==
    Executing =>
        /\ Cardinality({n \in DOMAIN status : status[n] = "running"}) <= 1
        /\ \A i, j \in 1..Len(started) : started[i] = started[j] => i = j
        /\ \A i \in 1..Len(started) :
              \A d \in DeclaredBy(started[i]) :
                  /\ \E j \in 1..(i - 1) : started[j] = d
                  /\ status[d] = "succeeded"

\* Three tasks in a chain have run, each after the one it depends on.
C9_Witness ==
    /\ pc = "returned"
    /\ Len(started) = 3
    /\ started[1] \in DeclaredBy(started[2])
    /\ started[2] \in DeclaredBy(started[3])

(***************************************************************************)
(* C10.  When the build is over, every task that depends, directly or not, *)
(* on a failed task was never started and is skipped, every other task was *)
(* started and has succeeded or failed, and run() ends with DAGBuildError  *)
(* exactly when a task has failed.  While the build goes on, no task below *)
(* a failed task is started.                                               *)
(***************************************************************************)
Failed == {n \in DOMAIN status : status[n] = "failed"}

StartedSet == {started[i] : i \in 1..Len(started)}

BuildOver == pc = "returned" \/ (pc = "raised" /\ error.at = "build")

C10_FailureSkipsDependents ==
    /\ Executing =>
          \A n \in DOMAIN status :
              DependsOn(n) \cap Failed # {} => n \notin StartedSet
    /\ BuildOver =>
          /\ \A n \in SelectedNames :
                IF DependsOn(n) \cap Failed # {}
                THEN status[n] = "skipped" /\ n \notin StartedSet
                ELSE status[n] \in {"succeeded", "failed"} /\ n \in StartedSet
          /\ (Failed # {}) <=> (pc = "raised" /\ error.type = "DAGBuildError")
          /\ (Failed = {}) <=> (pc = "returned")

\* A task has failed, the task below it and the one below that are skipped.
C10_Witness ==
    /\ pc = "raised"
    /\ error.type = "DAGBuildError"
    /\ \E a, b, c \in SelectedNames :
          /\ status[a] = "failed"
          /\ a \in DeclaredBy(b) /\ status[b] = "skipped"
          /\ b \in DeclaredBy(c) /\ status[c] = "skipped"

\* A task has failed, and a task that does not depend on it has succeeded
\* after the failure.
C10_WitnessIndependent ==
    /\ pc = "raised"
    /\ error.type = "DAGBuildError"
    /\ Len(started) = 2
    /\ status[started[1]] = "failed"
    /\ status[started[2]] = "succeeded"

(***************************************************************************)
(* C11.  With --serial and without it, the build ends with the same        *)
(* verdict for every task: a task is skipped when a task it depends on,    *)
(* directly or not, fails when run, and otherwise it ends as its own run   *)
(* ends.  The verdict is a function of the declared graph and of what the  *)
(* runs of the tasks report, and of nothing else: serial is no part of it. *)
(***************************************************************************)
Verdict(n) ==
    IF \E a \in DependsOn(n) : outcomes[a] = "failed" THEN "skipped" ELSE outcomes[n]

C11_SameVerdictsSerialOrNot ==
    \A mode \in BOOLEAN :
        (serial = mode /\ BuildOver) => \A n \in SelectedNames : status[n] = Verdict(n)

\* Without --serial, a build where a notebook has failed and the script
\* that depends on it was skipped, though its own run would have succeeded.
C11_Witness ==
    /\ ~serial
    /\ BuildOver
    /\ \E a, b \in SelectedNames :
          /\ a \in DeclaredBy(b)
          /\ status[a] = "failed"
          /\ status[b] = "skipped" /\ outcomes[b] = "succeeded"

\* The same build with --serial.
C11_WitnessSerial ==
    /\ serial
    /\ BuildOver
    /\ \E a, b \in SelectedNames :
          /\ a \in DeclaredBy(b)
          /\ status[a] = "failed"
          /\ status[b] = "skipped" /\ outcomes[b] = "succeeded"

(***************************************************************************)
(* C12.  When run() ends with a fatal error of the configuration or of the *)
(* assembly of the graph (a missing key, a runtime missing from env_check, *)
(* an unresolved dependency, a cycle), the book has not been set up, no    *)
(* catalog subset has been serialized and no task has been started.        *)
(***************************************************************************)
FatalBeforeExecution ==
    /\ pc = "raised"
    /\ error.type \in {"KeyError", "UnresolvedDependencyError", "CyclicDependencyError"}

C12_FatalErrorsBeforeSideEffects ==
    FatalBeforeExecution =>
        /\ ~book_setup
        /\ serialized = << >>
        /\ started = << >>

(***************************************************************************)
(* C13.  When the universe is selected by component flags, every flagged   *)
(* component that the section lacks gets one warning, no other component   *)
(* gets one, the tasks of every flagged component that the section has are *)
(* in the universe, and run() goes on: if it ends with an error after such *)
(* a warning, the error is one of a later step.                            *)
(***************************************************************************)
Flagged == {c \in ComponentSet : component_options[c]}

ComponentWarned(kind, c) ==
    Cardinality({i \in 1..Len(warnings) : warnings[i] = NoComponentWarning(kind, c)})

MissingComponentHandled(kind, section, universe) ==
    \A c \in ComponentSet :
        /\ c \in Flagged /\ DictHas(section, c) =>
              DictKeys(DictGet(section, c)) \subseteq DictKeys(universe)
        /\ ComponentWarned(kind, c) = IF c \in Flagged /\ ~DictHas(section, c) THEN 1 ELSE 0

C13_MissingComponentWarnsAndContinues ==
    /\ pc = "nb_env" /\ ~all =>
          MissingComponentHandled("notebook", control.compute_notebooks, all_nbs)
    /\ pc = "script_env" /\ ~all =>
          MissingComponentHandled("script", control.compute_scripts, all_scripts)
    /\ pc = "raised" /\ (\E i \in 1..Len(warnings) : warnings[i].type = "no_component") =>
          error.at \in {"nb_env", "nb_tasks", "script_env", "script_tasks", "build"}

\* A flagged component is missing from the notebooks, another flagged
\* component brought its notebook, and run() has returned.
C13_Witness ==
    /\ pc = "returned"
    /\ HasNotebooks
    /\ \E c, d \in Flagged :
          /\ ~DictHas(control.compute_notebooks, c)
          /\ ComponentWarned("notebook", c) = 1
          /\ DictHas(control.compute_notebooks, d)
          /\ DictKeys(DictGet(control.compute_notebooks, d)) \subseteq DagNames(dag)
          /\ DictKeys(DictGet(control.compute_notebooks, d)) # {}

\* The same for the scripts.
C13_WitnessScripts ==
    /\ pc = "returned"
    /\ HasScripts
    /\ \E c, d \in Flagged :
          /\ ~DictHas(control.compute_scripts, c)
          /\ ComponentWarned("script", c) = 1
          /\ DictHas(control.compute_scripts, d)
          /\ DictKeys(DictGet(control.compute_scripts, d)) \subseteq DagNames(dag)
          /\ DictKeys(DictGet(control.compute_scripts, d)) # {}

(***************************************************************************)
(* C14.  Under --time-series run() does nothing but raise                  *)
(* NotImplementedError: the configuration is never loaded, the book is not *)
(* set up, no path is read, no catalog subset is serialized, no task is    *)
(* selected, added to the graph or started, and no warning is issued,      *)
(* whatever the other flags and the configuration are.                     *)
(***************************************************************************)
C14_TimeSeriesAbortsAtOnce ==
    time_series =>
        /\ pc \in {"start", "raised"}
        /\ pc = "raised" => error = [type |-> "NotImplementedError", at |-> "time_series"]
        /\ control = NoControl
        /\ ~book_setup
        /\ paths = <<NoPath, NoPath, NoPath, NoPath>>
        /\ cat_path = NoPath /\ serialized = << >>
        /\ all_nbs = << >> /\ all_scripts = << >>
        /\ dag = << >> /\ started = << >> /\ warnings = << >>

\* run() has ended under --time-series with --serial, --all and a component
\* flag, on a configuration with a catalog subset and tasks to run.
C14_Witness ==
    /\ pc = "raised"
    /\ time_series /\ serial /\ all /\ component_options["atmosphere"]
    /\ "data_sources" \in DOMAIN config
    /\ "subset" \in DOMAIN config.data_sources
    /\ "path_to_cat_json" \in DOMAIN config.data_sources
    /\ "compute_notebooks" \in DOMAIN config
    /\ "compute_scripts" \in DOMAIN config

(***************************************************************************)
(* C15.  Once run() has selected the universes and added the tasks to the  *)
(* graph, the control structure, control['global_params'] included, is     *)
(* what get_control_dict returned.                                         *)
(***************************************************************************)
TasksAdded ==
    \/ pc \in {"build", "exec", "returned"}
    \/ pc = "raised" /\ error.at = "build"

C15_ControlReadOnly == TasksAdded => control = config

(***************************************************************************)
(* C16.  The universe that run() selects is the merge, each entry          *)
(* replacing an earlier one of the same name, of the infrastructure        *)
(* category first and then of the other selected categories in the order   *)
(* of the configuration, where the selected categories are all of them     *)
(* under select-all and the flagged ones under component flags.            *)
(***************************************************************************)
InfrastructureFirst(section, chosen) ==
    SelectSeq(section, LAMBDA e : e.key = "infrastructure")
        \o SelectSeq(section, LAMBDA e : e.key # "infrastructure" /\ e.key \in chosen)

OrderedMerge(section, chosen) == MergeAllCategories(<< >>, InfrastructureFirst(section, chosen))

ChosenCategories(section) == IF all THEN DictKeys(section) ELSE Flagged

C16_InfrastructureFirstThenConfigurationOrder ==
    /\ pc = "nb_env" =>
          Items(all_nbs) = Items(OrderedMerge(control.compute_notebooks,
                                              ChosenCategories(control.compute_notebooks)))
    /\ pc = "script_env" =>
          Items(all_scripts) = Items(OrderedMerge(control.compute_scripts,
                                                  ChosenCategories(control.compute_scripts)))

(***************************************************************************)
(* C17.  When every task selected, notebook or script, is removed by the   *)
(* environment check because its kernel is marked unavailable, there is    *)
(* one warning for each of them, no task is added to the graph, none is    *)
(* started, and run() goes through dag.build() on the empty graph and      *)
(* returns without an error.                                               *)
(***************************************************************************)
SelectedNbsBefore ==
    IF HasNotebooks THEN SelectNbs(control.compute_notebooks, all, component_options)
    ELSE << >>

SelectedScriptsBefore ==
    IF HasScripts THEN SelectScripts(control.compute_scripts, all, component_options)
    ELSE << >>

AllDropped ==
    /\ TasksAdded
    /\ Len(SelectedNbsBefore) + Len(SelectedScriptsBefore) > 0
    /\ \A e \in Items(SelectedNbsBefore) \cup Items(SelectedScriptsBefore) :
          MarkedUnavailable(e.val.kernel_name)

OneWarningEach(kind, before) ==
    /\ Len(WarningsOf("bad_env", kind)) = Len(before)
    /\ \A e \in Items(before) :
          \E i \in 1..Len(warnings) :
              warnings[i] = BadEnvWarning(kind, e.key, e.val.kernel_name)

C17_AllDroppedEndsInSuccess ==
    /\ [](AllDropped =>
            /\ OneWarningEach("notebook", SelectedNbsBefore)
            /\ OneWarningEach("script", SelectedScriptsBefore)
            /\ dag = << >> /\ started = << >> /\ status = [n \in {} |-> ""]
            /\ pc \in {"build", "exec", "returned"} /\ error = NoError)
    /\ (AllDropped ~> pc = "returned")

\* Two notebooks and two scripts were selected, all four were removed, and
\* run() has returned.
C17_Witness ==
    /\ pc = "returned"
    /\ AllDropped
    /\ Len(SelectedNbsBefore) = 2 /\ Len(SelectedScriptsBefore) = 2
    /\ Len(warnings) = 4
    /\ dag = << >>

(***************************************************************************)
(* C18.  Under --all the notebook universe and the script universe that    *)
(* run() selects are those it selects with no flag at all, whichever       *)
(* component flags are set besides, and no component is warned about.      *)
(* (After the selection all is TRUE exactly when --all was given or no     *)
(* component was flagged.)                                                 *)
(***************************************************************************)
NoFlag == [c \in ComponentSet |-> FALSE]

C18_AllOverridesComponentFlags ==
    /\ pc = "nb_env" /\ all =>
          /\ all_nbs = SelectNbs(control.compute_notebooks, FALSE, NoFlag)
          /\ WarningsOf("no_component", "notebook") = << >>
    /\ pc = "script_env" /\ all =>
          /\ all_scripts = SelectScripts(control.compute_scripts, FALSE, NoFlag)
          /\ WarningsOf("no_component", "script") = << >>

\* --all with the atmosphere flagged, on a notebook section that has a
\* category other than atmosphere and infrastructure: its notebook is in.
C18_Witness ==
    /\ pc = "nb_env" /\ all
    /\ component_options["atmosphere"]
    /\ \E i \in 1..Len(control.compute_notebooks) :
          /\ control.compute_notebooks[i].key \notin {"atmosphere", "infrastructure"}
          /\ DictKeys(control.compute_notebooks[i].val) \subseteq DictKeys(all_nbs)
          /\ DictKeys(control.compute_notebooks[i].val)
                 \cap DictKeys(DictGet(control.compute_notebooks, "infrastructure")) = {}

\* The same for the scripts.
C18_WitnessScripts ==
    /\ pc = "script_env" /\ all
    /\ component_options["atmosphere"]
    /\ \E i \in 1..Len(control.compute_scripts) :
          /\ control.compute_scripts[i].key # "atmosphere"
          /\ DictKeys(control.compute_scripts[i].val) \subseteq DictKeys(all_scripts)

(***************************************************************************)
(* C19.  Every task of the graph, notebook or script, was created with     *)
(* global parameters that have the key serial, with the value of --serial. *)
(***************************************************************************)
CarriesSerial(task) == "serial" \in DOMAIN task.params /\ task.params.serial = serial

C19_EveryTaskCarriesSerial == \A i \in 1..Len(dag) : CarriesSerial(dag[i])

(***************************************************************************)
(* C20.  Once run() has dealt with the catalog, cat_path, which every task *)
(* is created with, is: no path when data_sources has no path_to_cat_json, *)
(* and then nothing is serialized, subset or not; the file                 *)
(* <run_dir>/temp_data/<name>_subset.json when it has path_to_cat_json and *)
(* subset, <name> being the file name of the catalog without its           *)
(* extension; the resolved path of the catalog when it has                 *)
(* path_to_cat_json alone.                                                 *)
(***************************************************************************)
CatalogDone ==
    /\ pc \notin {"start", "paths", "catalog"}
    /\ pc = "raised" => error.at \notin {"time_series", "data_sources"}

WithoutExtension(file) == IF Len(file) > 1 THEN SubSeq(file, 1, Len(file) - 1) ELSE file

SubsetFile(file) ==
    LET stem == WithoutExtension(file)
    IN  [i \in 1..Len(stem) |-> IF i = Len(stem) THEN stem[i] \o Piece("_subset") ELSE stem[i]]
            \o <<Piece("json")>>

ResolvedCatalog == realpath(expanduser(control.data_sources.path_to_cat_json))

ClaimedCatPath ==
    IF "path_to_cat_json" \notin DOMAIN control.data_sources THEN NoPath
    ELSE IF "subset" \in DOMAIN control.data_sources
    THEN run_dir \o <<Name("temp_data"), SubsetFile(ResolvedCatalog[Len(ResolvedCatalog)])>>
    ELSE ResolvedCatalog

C20_CatalogPathByCase ==
    CatalogDone =>
        /\ cat_path = ClaimedCatPath
        /\ "path_to_cat_json" \notin DOMAIN control.data_sources => serialized = << >>
        /\ \A i \in 1..Len(dag) : dag[i].cat_path = cat_path

====
